---- MODULE Spec2Model ----
(***************************************************************************)
(* Model of server/http_server.go: the register / login / 2fa / protected  *)
(* / logout handlers over the package-level map `users`.                   *)
(*                                                                         *)
(* net/http runs every request in its own goroutine and the handlers take  *)
(* no lock, so a handler is modelled as the sequence of its accesses to    *)
(* `users`: each access is one atomic step, and the steps of the requests  *)
(* in flight interleave freely.                                            *)
(*                                                                         *)
(* Tokens and TOTP secrets are positive integers, the empty string of a    *)
(* token or secret field is Empty.  Time is counted in minutes.            *)
(***************************************************************************)
EXTENDS Integers, FiniteSets, Sequences, Bags, TLC

\* ---- bounds of the model ------------------------------------------------
NumRequests == 2      \* requests that can be in flight at the same time
MaxTokens   == 5      \* calls of generateToken
MaxSecrets  == 2      \* calls of generateSecretKey
MaxTime     == 5      \* minutes the clock can advance

\* ---- program constants ---------------------------------------------------
Empty == 0                 \* "" as the value of a token, secret or cookie
PendingCookieMinutes == 5  \* Expires of the pending_2fa_token cookie

Emails    == {"a@x.com", "b@x.com"}
Passwords == {"pw1", "pw2"}
Tokens    == 1..MaxTokens

VARIABLES
    users,        \* the map users: email -> Login
    alive,        \* the server process is running
    now,          \* time.Now(), in minutes
    nextToken,    \* the next value generateToken returns
    nextSecret,   \* the next secret generateSecretKey returns
    req,          \* the requests in flight, a bag: position and local variables of each
    last,         \* the response the step just taken wrote, with its request
    sent,         \* history: token -> the cookie it was sent as, and what became of it
    registered,   \* history: <<email, secret>> of the register requests that succeeded
    revoked       \* history: <<session, csrf>> pairs presented to a logout that succeeded

vars == <<users, alive, now, nextToken, nextSecret, req, last, sent, registered, revoked>>

\* ---- type Login ----------------------------------------------------------
Login(hashed, session, csrf, pending, secret) ==
    [HashedPassword |-> hashed, SessionToken |-> session, CSRFToken |-> csrf,
     Pending_2fa_Token |-> pending, TOTPSecret |-> secret]

\* The zero value of Login.
ZeroLogin == Login("", Empty, Empty, Empty, Empty)

\* users[email] = login, on a Go map: inserts or overwrites.
MapSet(m, email, login) ==
    [e \in (DOMAIN m) \cup {email} |-> IF e = email THEN login ELSE m[e]]

\* ---- collaborators that are not part of http_server.go -------------------
\* hashedPassword(password): a digest, never the password itself.
hashedPassword(password) == "$2a$" \o password

\* checkPasswordHash(password, hash): the password hashes to this digest.
checkPasswordHash(password, hash) == hash = hashedPassword(password)

\* The code a client computes from a TOTP secret.
TOTPCode(secret) == <<secret>>
BadOTP == <<>>

\* verifyTOTP(secret, code).
verifyTOTP(secret, otp) == secret # Empty /\ otp = TOTPCode(secret)

\* PreAuthorize(r): some Identity holds exactly the presented pending token.
\* Login has no field for the time a pending token was issued and login
\* stores none, so there is nothing in the store to compare with the clock.
PreAuthorize(pendingToken) ==
    /\ pendingToken # Empty
    /\ \E e \in DOMAIN users : users[e].Pending_2fa_Token = pendingToken

\* Authorize(r): some Identity holds both presented tokens.
Authorize(sessionToken, csrfToken) ==
    /\ sessionToken # Empty
    /\ csrfToken # Empty
    /\ \E e \in DOMAIN users :
          /\ users[e].SessionToken = sessionToken
          /\ users[e].CSRFToken = csrfToken

\* ---- requests and responses ----------------------------------------------
\* The position and the local variables of a request between two accesses
\* to users; a request that is not in flight is Idle.  expired and used
\* are history, not locals: what was known of the pending token the request
\* presented when it arrived.
Idle == [pc |-> "idle", email |-> "", password |-> "",
         pendingToken |-> Empty, session |-> Empty, csrf |-> Empty,
         user |-> ZeroLogin, expired |-> FALSE, used |-> FALSE]

\* What a handler wrote to the ResponseWriter (status, message, cookies,
\* qr_code_url), with the request it answers.  resolved is the key of the
\* Identity whose TOTP secret a 2fa request verified the OTP against.
NoResponse ==
    [handler |-> "none", method |-> "POST", email |-> "", password |-> "",
     otp |-> BadOTP, pending_2fa_token |-> Empty, session_token |-> Empty,
     csrf_token |-> Empty, expired |-> FALSE, used |-> FALSE, resolved |-> "",
     status |-> "", message |-> "", qr_code_url |-> Empty,
     set_pending_2fa_token |-> Empty, set_session_token |-> Empty,
     set_csrf_token |-> Empty]

Methods == {"POST", "GET"}

\* The email and password fields of the register requests: every email with
\* every password, and one request for each field left empty.
RegisterForms == (Emails \X Passwords) \cup {<<"", "pw1">>, <<"a@x.com", "">>}

\* http.Error(w, message, status)
Error(request, status, message) ==
    [request EXCEPT !.status = status, !.message = message]

\* A handler refuses a request that is not a POST before it reads anything
\* else of it.
MethodNotAllowed(handler) ==
    [NoResponse EXCEPT !.handler = handler, !.method = "GET",
                       !.status = "MethodNotAllowed", !.message = "Method not allowed"]

\* What is known of a token: the cookie a response set it as ("unsent" for a
\* token not generated yet), the Expires of a pending cookie, and whether a
\* 2fa request that presented it has succeeded.
Unsent == [kind |-> "unsent", expires |-> 0, used |-> FALSE]
Cookie(kind, expires) == [Unsent EXCEPT !.kind = kind, !.expires = expires]
Known(token) == IF token = Empty THEN Unsent ELSE sent[token]

\* The values a client can present as the cookie `kind`: those some
\* response set that cookie to, or none.
Presentable(kind) == {Empty} \cup {t \in Tokens : sent[t].kind = kind}

\* The OTP codes a client can present: a wrong one, or the code of a secret
\* some registration handed out.
OTPs == {BadOTP} \cup {TOTPCode(s) : s \in 1..(nextSecret - 1)}

\* Calls of generateToken and generateSecretKey the requests in flight
\* still have to make.
RECURSIVE CountAt(_, _)
CountAt(pcs, rs) ==
    IF rs = {} THEN 0
    ELSE LET r == CHOOSE x \in rs : TRUE
         IN  (IF r.pc \in pcs THEN req[r] ELSE 0) + CountAt(pcs, rs \ {r})
InFlight(pcs) == CountAt(pcs, DOMAIN req)
TokensReserved == InFlight({"login_write"}) + 2 * InFlight({"twoFactor_scan"})
SecretsReserved == InFlight({"register_insert"})

Init ==
    /\ users = <<>>
    /\ alive = TRUE
    /\ now = 0
    /\ nextToken = 1
    /\ nextSecret = 1
    /\ req = EmptyBag
    /\ last = NoResponse
    /\ sent = [t \in Tokens |-> Unsent]
    /\ registered = {}
    /\ revoked = {}

\* The process ends (log.Fatal, or a fatal error of the runtime): the map,
\* the requests in flight and the generators' state are gone with it, and
\* no history is read any more.
Exit ==
    /\ alive' = FALSE
    /\ users' = <<>>
    /\ req' = EmptyBag
    /\ last' = NoResponse
    /\ now' = 0
    /\ nextToken' = 1
    /\ nextSecret' = 1
    /\ sent' = [t \in Tokens |-> Unsent]
    /\ registered' = {}
    /\ revoked' = {}

\* The server is running and the response of the step before has gone out.
Running == alive /\ last = NoResponse

\* The response goes out to the client.  last shows a response in the state
\* its handler left behind, before any other step is taken.
Deliver ==
    /\ alive
    /\ last # NoResponse
    /\ last' = NoResponse
    /\ UNCHANGED <<users, alive, now, nextToken, nextSecret, req, sent, registered, revoked>>

\* A request arrives and a goroutine starts to serve it.
Accepts ==
    /\ Running
    /\ BagCardinality(req) < NumRequests

\* The requests in flight without r (r = Idle has not entered yet).
Leave(r) == IF r = Idle THEN req ELSE req (-) SetToBag({r})

\* The handler returns: the response is written, the store is not touched.
Reply(r, response) ==
    /\ req' = Leave(r)
    /\ last' = response
    /\ UNCHANGED <<users, alive, now, nextToken, nextSecret, sent, registered, revoked>>

\* The handler goes on to its next access to users.
Continue(r, locals) ==
    /\ req' = Leave(r) (+) SetToBag({locals})
    /\ UNCHANGED <<users, alive, now, nextToken, nextSecret, last, sent, registered, revoked>>

\* ---- register ------------------------------------------------------------
\* Register as it would be without the existence check of lines 47-50.
RegisterUnchecked ==
    /\ Accepts
    /\ \E method \in Methods :
         IF method # "POST" THEN Reply(Idle, MethodNotAllowed("register")) ELSE
         \E form \in RegisterForms :
         LET email == form[1]
             password == form[2]
             request == [NoResponse EXCEPT !.handler = "register",
                                           !.email = email, !.password = password]
         IN  IF email = "" \/ password = ""
             THEN Reply(Idle, Error(request, "BadRequest", "email or password is empty"))
             ELSE /\ nextSecret + SecretsReserved <= MaxSecrets
                  /\ Continue(Idle, [Idle EXCEPT !.pc = "register_insert",
                                              !.email = email, !.password = password])

\* Lines 34-50: the method, the empty fields, and the existence check.
Register ==
    /\ Accepts
    /\ \E method \in Methods :
         IF method # "POST" THEN Reply(Idle, MethodNotAllowed("register")) ELSE
         \E form \in RegisterForms :
         LET email == form[1]
             password == form[2]
             request == [NoResponse EXCEPT !.handler = "register",
                                           !.email = email, !.password = password]
         IN  IF email = "" \/ password = ""
             THEN Reply(Idle, Error(request, "BadRequest", "email or password is empty"))
             ELSE IF email \in DOMAIN users
             THEN Reply(Idle, Error(request, "BadRequest", "email already exists"))
             ELSE /\ nextSecret + SecretsReserved <= MaxSecrets
                  /\ Continue(Idle, [Idle EXCEPT !.pc = "register_insert",
                                              !.email = email, !.password = password])

\* Lines 52-67: hash, secret, users[email] = Login{...}, the response.
RegisterInsert ==
    /\ Running
    /\ \E r \in BagToSet(req) :
        /\ r.pc = "register_insert"
        /\ LET email == r.email
               password == r.password
               secret == nextSecret
           IN  /\ users' = MapSet(users, email,
                                  Login(hashedPassword(password), Empty, Empty, Empty, secret))
               /\ nextSecret' = nextSecret + 1
               /\ registered' = registered \cup {<<email, secret>>}
               /\ last' = [NoResponse EXCEPT
                             !.handler = "register", !.email = email, !.password = password,
                             !.status = "OK", !.qr_code_url = secret,
                             !.message = "Registration successful. Please setup TOTP Authentication."]
        /\ req' = Leave(r)
        /\ UNCHANGED <<alive, now, nextToken, sent, revoked>>

\* Lines 54-57: generateSecretKey returns an error and log.Fatal ends the process.
RegisterFatal ==
    /\ Running
    /\ \E r \in BagToSet(req) :
        /\ r.pc = "register_insert"
        /\ Exit

\* ---- login ---------------------------------------------------------------
\* LoginRead as it would be with && for the || of line 83.
LoginReadAnd ==
    /\ Accepts
    /\ \E method \in Methods :
         IF method # "POST" THEN Reply(Idle, MethodNotAllowed("login")) ELSE
         \E email \in Emails, password \in Passwords :
         LET request == [NoResponse EXCEPT !.handler = "login",
                                           !.email = email, !.password = password]
             ok == email \in DOMAIN users
             user == IF ok THEN users[email] ELSE ZeroLogin
         IN  IF ~ok /\ ~checkPasswordHash(password, user.HashedPassword)
             THEN Reply(Idle, Error(request, "Unauthorized", "Invalid email or password"))
             ELSE /\ nextToken + TokensReserved <= MaxTokens
                  /\ Continue(Idle, [Idle EXCEPT !.pc = "login_write", !.email = email,
                                              !.password = password,
                                              !.user = Login(user.HashedPassword, Empty, Empty,
                                                             Empty, user.TOTPSecret)])

\* Lines 74-86: user, ok := users[email] and the password check.
LoginRead ==
    /\ Accepts
    /\ \E method \in Methods :
         IF method # "POST" THEN Reply(Idle, MethodNotAllowed("login")) ELSE
         \E email \in Emails, password \in Passwords :
         LET request == [NoResponse EXCEPT !.handler = "login",
                                           !.email = email, !.password = password]
             ok == email \in DOMAIN users
             user == IF ok THEN users[email] ELSE ZeroLogin
         IN  IF ~ok \/ ~checkPasswordHash(password, user.HashedPassword)
             THEN Reply(Idle, Error(request, "Unauthorized", "Invalid email or password"))
             ELSE /\ nextToken + TokensReserved <= MaxTokens
                  /\ Continue(Idle, [Idle EXCEPT !.pc = "login_write", !.email = email,
                                              !.password = password,
                                              !.user = Login(user.HashedPassword, Empty, Empty,
                                                             Empty, user.TOTPSecret)])

\* LoginWrite as it would be if every login used one token, drawn once.
LoginWriteOneToken ==
    /\ Running
    /\ \E r \in BagToSet(req) :
        /\ r.pc = "login_write"
        /\ LET email == r.email
               user == r.user
               Pending_2fa_Token == 1
           IN  /\ users' = MapSet(users, email,
                                  [user EXCEPT !.Pending_2fa_Token = Pending_2fa_Token])
               /\ nextToken' = IF nextToken = 1 THEN 2 ELSE nextToken
               /\ sent' = [sent EXCEPT ![Pending_2fa_Token] =
                              Cookie("pending", now + PendingCookieMinutes)]
               /\ last' = [NoResponse EXCEPT
                             !.handler = "login", !.email = email,
                             !.password = r.password, !.status = "OK",
                             !.set_pending_2fa_token = Pending_2fa_Token,
                             !.message = "Email and password validated. You have 5 minutes to complete TOTP Authentication."]
        /\ req' = Leave(r)
        /\ UNCHANGED <<alive, now, nextSecret, registered, revoked>>

\* LoginWrite as it would be with the token stored in the SessionToken field.
LoginWriteSessionField ==
    /\ Running
    /\ \E r \in BagToSet(req) :
        /\ r.pc = "login_write"
        /\ LET email == r.email
               user == r.user
               Pending_2fa_Token == nextToken
           IN  /\ users' = MapSet(users, email,
                                  [user EXCEPT !.SessionToken = Pending_2fa_Token])
               /\ nextToken' = nextToken + 1
               /\ sent' = [sent EXCEPT ![Pending_2fa_Token] =
                              Cookie("pending", now + PendingCookieMinutes)]
               /\ last' = [NoResponse EXCEPT
                             !.handler = "login", !.email = email,
                             !.password = r.password, !.status = "OK",
                             !.set_pending_2fa_token = Pending_2fa_Token,
                             !.message = "Email and password validated. You have 5 minutes to complete TOTP Authentication."]
        /\ req' = Leave(r)
        /\ UNCHANGED <<alive, now, nextSecret, registered, revoked>>

\* LoginWrite as it would be if it kept a pending token the Identity holds.
LoginWriteKeepsPrior ==
    /\ Running
    /\ \E r \in BagToSet(req) :
        /\ r.pc = "login_write"
        /\ LET email == r.email
               user == r.user
               Pending_2fa_Token == nextToken
               prior == IF email \in DOMAIN users
                        THEN users[email].Pending_2fa_Token ELSE Empty
           IN  /\ users' = MapSet(users, email,
                                  [user EXCEPT !.Pending_2fa_Token =
                                      IF prior # Empty THEN prior ELSE Pending_2fa_Token])
               /\ nextToken' = nextToken + 1
               /\ sent' = [sent EXCEPT ![Pending_2fa_Token] =
                              Cookie("pending", now + PendingCookieMinutes)]
               /\ last' = [NoResponse EXCEPT
                             !.handler = "login", !.email = email,
                             !.password = r.password, !.status = "OK",
                             !.set_pending_2fa_token = Pending_2fa_Token,
                             !.message = "Email and password validated. You have 5 minutes to complete TOTP Authentication."]
        /\ req' = Leave(r)
        /\ UNCHANGED <<alive, now, nextSecret, registered, revoked>>

\* Lines 88-104: the pending token, users[email] = Login{...}, the cookie.
LoginWrite ==
    /\ Running
    /\ \E r \in BagToSet(req) :
        /\ r.pc = "login_write"
        /\ LET email == r.email
               user == r.user
               Pending_2fa_Token == nextToken
           IN  /\ users' = MapSet(users, email,
                                  [user EXCEPT !.Pending_2fa_Token = Pending_2fa_Token])
               /\ nextToken' = nextToken + 1
               /\ sent' = [sent EXCEPT ![Pending_2fa_Token] =
                              Cookie("pending", now + PendingCookieMinutes)]
               /\ last' = [NoResponse EXCEPT
                             !.handler = "login", !.email = email,
                             !.password = r.password, !.status = "OK",
                             !.set_pending_2fa_token = Pending_2fa_Token,
                             !.message = "Email and password validated. You have 5 minutes to complete TOTP Authentication."]
        /\ req' = Leave(r)
        /\ UNCHANGED <<alive, now, nextSecret, registered, revoked>>

\* ---- 2fa -----------------------------------------------------------------
\* TwoFactor as it would be if a refusal at the gate cleared the pending
\* token of every Identity.
TwoFactorRefusalClears ==
    /\ Accepts
    /\ \E method \in Methods :
         IF method # "POST" THEN Reply(Idle, MethodNotAllowed("twoFactor")) ELSE
         \E pendingToken \in Presentable("pending") :
         LET expired == pendingToken # Empty /\ Known(pendingToken).expires <= now
             request == [NoResponse EXCEPT !.handler = "twoFactor",
                                           !.pending_2fa_token = pendingToken,
                                           !.expired = expired,
                                           !.used = Known(pendingToken).used]
         IN  IF pendingToken = Empty
             THEN Reply(Idle, Error(request, "Unauthorized", "Unauthorized"))
             ELSE IF ~PreAuthorize(pendingToken)
             THEN /\ users' = [e \in DOMAIN users |->
                                 [users[e] EXCEPT !.Pending_2fa_Token = Empty]]
                  /\ last' = Error(request, "Unauthorized", "Unauthorized")
                  /\ UNCHANGED <<alive, now, nextToken, nextSecret, req, sent,
                                 registered, revoked>>
             ELSE /\ nextToken + TokensReserved + 1 <= MaxTokens
                  /\ Continue(Idle, [Idle EXCEPT !.pc = "twoFactor_scan",
                                              !.pendingToken = pendingToken,
                                              !.expired = expired,
                                              !.used = sent[pendingToken].used])

\* Lines 111-129: the method, the pending cookie, PreAuthorize.  The otp
\* field of the form is read at line 144, after the scan.
TwoFactor ==
    /\ Accepts
    /\ \E method \in Methods :
         IF method # "POST" THEN Reply(Idle, MethodNotAllowed("twoFactor")) ELSE
         \E pendingToken \in Presentable("pending") :
         LET expired == pendingToken # Empty /\ Known(pendingToken).expires <= now
             request == [NoResponse EXCEPT !.handler = "twoFactor",
                                           !.pending_2fa_token = pendingToken,
                                           !.expired = expired,
                                           !.used = Known(pendingToken).used]
         IN  IF pendingToken = Empty
             THEN Reply(Idle, Error(request, "Unauthorized", "Unauthorized"))
             ELSE IF ~PreAuthorize(pendingToken)
             THEN Reply(Idle, Error(request, "Unauthorized", "Unauthorized"))
             ELSE /\ nextToken + TokensReserved + 1 <= MaxTokens
                  /\ Continue(Idle, [Idle EXCEPT !.pc = "twoFactor_scan",
                                              !.pendingToken = pendingToken,
                                              !.expired = expired,
                                              !.used = sent[pendingToken].used])

\* Lines 131-188: the scan of users, verifyTOTP, the two tokens, the cookies.
\* The scan takes the first match in the map's iteration order, which Go
\* leaves unspecified.  user points to u, the loop's copy of the map value,
\* so the three assignments of lines 173-175 change that copy and users
\* keeps the Login it had.
TwoFactorScan ==
    /\ Running
    /\ \E r \in BagToSet(req) :
        /\ r.pc = "twoFactor_scan"
        /\ LET pendingToken == r.pendingToken
               request == [NoResponse EXCEPT !.handler = "twoFactor",
                                             !.pending_2fa_token = pendingToken,
                                             !.expired = r.expired, !.used = r.used]
               matches == {e \in DOMAIN users : users[e].Pending_2fa_Token = pendingToken}
           IN  IF matches = {}
               THEN Reply(r, Error(request, "Unauthorized", "Unauthorized"))
               ELSE \E e \in matches, user_otp \in OTPs :
                      LET u == users[e]
                          sessionToken == nextToken
                          csrfToken == nextToken + 1
                          user == [u EXCEPT !.SessionToken = sessionToken,
                                            !.CSRFToken = csrfToken,
                                            !.Pending_2fa_Token = Empty]
                      IN  IF ~verifyTOTP(u.TOTPSecret, user_otp)
                          THEN Reply(r, Error([request EXCEPT !.resolved = e, !.otp = user_otp],
                                              "Unauthorized", "Unauthorized"))
                          ELSE /\ users' = users
                               /\ nextToken' = nextToken + 2
                               /\ sent' = [sent EXCEPT
                                             ![sessionToken] = Cookie("session", 0),
                                             ![csrfToken] = Cookie("csrf", 0),
                                             ![pendingToken].used = TRUE]
                               /\ last' = [request EXCEPT
                                             !.resolved = e, !.otp = user_otp, !.status = "OK",
                                             !.set_session_token = user.SessionToken,
                                             !.set_csrf_token = user.CSRFToken,
                                             !.set_pending_2fa_token = user.Pending_2fa_Token,
                                             !.message = "TOTP Authentication Successful."]
                               /\ req' = Leave(r)
                               /\ UNCHANGED <<alive, now, nextSecret, registered, revoked>>

\* ---- protected -----------------------------------------------------------
\* Protected as it would be if the error of Authorize were dropped.
ProtectedUnchecked ==
    /\ Accepts
    /\ \E method \in Methods :
         IF method # "POST" THEN Reply(Idle, MethodNotAllowed("protected")) ELSE
         \E session \in Presentable("session"), csrf \in Presentable("csrf") :
         LET request == [NoResponse EXCEPT !.handler = "protected",
                                           !.session_token = session, !.csrf_token = csrf]
         IN  Reply(Idle, [request EXCEPT !.status = "OK",
                          !.message = "Protected route successfully accessed."])

\* Lines 195-212.
Protected ==
    /\ Accepts
    /\ \E method \in Methods :
         IF method # "POST" THEN Reply(Idle, MethodNotAllowed("protected")) ELSE
         \E session \in Presentable("session"), csrf \in Presentable("csrf") :
         LET request == [NoResponse EXCEPT !.handler = "protected",
                                           !.session_token = session, !.csrf_token = csrf]
         IN  IF ~Authorize(session, csrf)
             THEN Reply(Idle, Error(request, "Unauthorized", "Unauthorized"))
             ELSE Reply(Idle, [request EXCEPT !.status = "OK",
                               !.message = "Protected route successfully accessed."])

\* ---- logout --------------------------------------------------------------
\* LogoutAuthorize as it would be if the error of Authorize were dropped.
LogoutUnchecked ==
    \E method \in Methods :
         IF method # "POST" THEN Reply(Idle, MethodNotAllowed("logout")) ELSE
         \E session \in Presentable("session"), csrf \in Presentable("csrf") :
         \E email \in Emails \cup {""} :
              Continue(Idle, [Idle EXCEPT !.pc = "logout_read", !.email = email,
                                       !.session = session, !.csrf = csrf])

\* Lines 219-228: the method and Authorize.
LogoutAuthorize ==
    \E method \in Methods :
         IF method # "POST" THEN Reply(Idle, MethodNotAllowed("logout")) ELSE
         \E session \in Presentable("session"), csrf \in Presentable("csrf") :
         LET request == [NoResponse EXCEPT !.handler = "logout",
                                           !.session_token = session,
                                           !.csrf_token = csrf]
         IN  IF ~Authorize(session, csrf)
             THEN Reply(Idle, Error(request, "Unauthorized", "Unauthorized"))
             ELSE \E email \in Emails \cup {""} :
                  Continue(Idle, [Idle EXCEPT !.pc = "logout_read", !.email = email,
                                           !.session = session, !.csrf = csrf])

\* Lines 230-235: user, ok := users[email].
LogoutRead(r) ==
    LET email == r.email
        request == [NoResponse EXCEPT !.handler = "logout", !.email = email,
                                      !.session_token = r.session,
                                      !.csrf_token = r.csrf]
    IN  IF email \notin DOMAIN users
        THEN Reply(r, Error(request, "NotFound", "User not found"))
        ELSE Continue(r, [r EXCEPT !.pc = "logout_write", !.user = users[email]])

\* Lines 237-258: the two tokens of the copy are cleared, users[email] = user.
LogoutWrite(r) ==
    LET email == r.email
        user == [r.user EXCEPT !.SessionToken = Empty, !.CSRFToken = Empty]
    IN  /\ users' = MapSet(users, email, user)
        /\ revoked' = revoked \cup {<<r.session, r.csrf>>}
        /\ last' = [NoResponse EXCEPT !.handler = "logout", !.email = email,
                                      !.session_token = r.session,
                                      !.csrf_token = r.csrf,
                                      !.status = "OK", !.message = "Logged Out"]
        /\ req' = Leave(r)
        /\ UNCHANGED <<alive, now, nextToken, nextSecret, sent, registered>>

\* The logout handler, at the access to users it has reached.
Logout ==
    /\ Running
    /\ \E r \in BagToSet(req) \cup {Idle} :
         CASE r = Idle               -> Accepts /\ LogoutAuthorize
           [] r.pc = "logout_read"  -> LogoutRead(r)
           [] r.pc = "logout_write" -> LogoutWrite(r)
           [] OTHER                 -> FALSE

\* ---- the environment -----------------------------------------------------
\* Time passes, up to the Expires of a pending cookie that has not expired:
\* the instants in between differ in nothing a handler reads or writes.
Tick ==
    /\ Running
    /\ \E t \in Tokens :
          /\ sent[t].kind = "pending"
          /\ sent[t].expires > now
          /\ sent[t].expires <= MaxTime
          /\ now' = sent[t].expires
    /\ UNCHANGED <<users, alive, nextToken, nextSecret, req, last, sent, registered, revoked>>

\* The steps that write to users.
WriteSteps == {"register_insert", "login_write", "logout_write"}

\* users is a plain map shared by the request goroutines.  A write that
\* overlaps another request's access is a data race, which the Go runtime
\* may detect and end the process for (fatal error: concurrent map writes,
\* or concurrent map read and map write).
ConcurrentMapAccess ==
    /\ Running
    /\ BagCardinality(req) >= 2
    /\ InFlight(WriteSteps) >= 1
    /\ Exit

Next ==
    \/ Register
    \/ RegisterInsert
    \/ RegisterFatal
    \/ LoginRead
    \/ LoginWrite
    \/ TwoFactor
    \/ TwoFactorScan
    \/ Protected
    \/ Logout
    \/ Deliver
    \/ Tick
    \/ ConcurrentMapAccess

Spec == Init /\ [][Next]_vars

\* ==== the properties ======================================================

\* A response to a POST of `handler`.
Answered(handler) == last.handler = handler /\ last.method = "POST"

\* s and c are the session and CSRF tokens one successful 2fa request set:
\* twoFactor draws them one after the other (lines 153-154).
IssuedTogether(s, c) ==
    /\ s \in Tokens /\ c \in Tokens
    /\ sent[s].kind = "session" /\ sent[c].kind = "csrf"
    /\ c = s + 1

\* One Identity holds both s and c.
HeldByOne(s, c) ==
    /\ s # Empty /\ c # Empty
    /\ \E e \in DOMAIN users : users[e].SessionToken = s /\ users[e].CSRFToken = c

\* q enters the requests in flight in this step.
Enters(q) == q \in BagToSet(req') /\ CopiesIn(q, req') > CopiesIn(q, req)

\* The step answers a request in the step it arrives in.
AnswersAtOnce(handler) ==
    /\ last = NoResponse /\ last' # NoResponse
    /\ last'.handler = handler /\ last'.method = "POST"
    /\ req' = req

\* ---- C1 ------------------------------------------------------------------
\* C1: a protected request that presents the session and CSRF tokens a
\* successful 2fa returned succeeds, unless a logout that presented them has
\* succeeded since; then it fails with Unauthorized.
C1_SessionOpensProtected ==
    (Answered("protected") /\ IssuedTogether(last.session_token, last.csrf_token))
    => last.status = (IF <<last.session_token, last.csrf_token>> \in revoked
                      THEN "Unauthorized" ELSE "OK")

\* ---- C2 ------------------------------------------------------------------
\* The step answers a register request for an email that has an Identity.
DuplicateRegister ==
    /\ AnswersAtOnce("register")
    /\ last'.email \in DOMAIN users
    /\ last'.password # ""

\* No register request for an email that has an Identity goes on to insert.
NoDuplicateProceeds ==
    \A q \in BagToSet(req') :
        (q.pc = "register_insert" /\ Enters(q)) => q.email \notin DOMAIN users

C3_OneRegistrationPerEmail ==
    \A e \in Emails : Cardinality({x \in registered : x[1] = e}) <= 1

C6_ExpiredPendingRejected ==
    (Answered("twoFactor") /\ last.expired) =>
        /\ last.status = "Unauthorized"
        /\ last.set_session_token = Empty
        /\ last.set_csrf_token = Empty

\* ---- C7 ------------------------------------------------------------------
\* C7: after a 2fa request has succeeded, the Identity that held the pending
\* token holds the session and CSRF tokens the response returned, and no
\* pending token.
C7_TokensStored ==
    (Answered("twoFactor") /\ last.status = "OK") =>
        /\ users[last.resolved].SessionToken = last.set_session_token
        /\ users[last.resolved].CSRFToken = last.set_csrf_token
        /\ users[last.resolved].Pending_2fa_Token = Empty

\* ---- C8 ------------------------------------------------------------------
\* C8: a 2fa request that presents a pending token an earlier 2fa request
\* has succeeded with fails with Unauthorized.
C8_NoReplay ==
    (Answered("twoFactor") /\ last.used) => last.status = "Unauthorized"

\* ---- C9 ------------------------------------------------------------------
\* The 2fa request answered presented a pending token that an Identity
\* held and that had not expired, with an OTP that did not verify.
OTPRefused ==
    /\ Answered("twoFactor")
    /\ last.resolved # ""
    /\ ~last.expired
    /\ ~verifyTOTP(users[last.resolved].TOTPSecret, last.otp)

\* C9: a 2fa request with a valid pending token and an OTP that does not
\* verify fails with Unauthorized and clears the Identity's pending token.
C9_FailedAttemptClears ==
    OTPRefused =>
        /\ last.status = "Unauthorized"
        /\ users[last.resolved].Pending_2fa_Token = Empty

\* ---- C10 -----------------------------------------------------------------
\* The email has no Identity, or the password is not the Identity's.
BadCredentials(email, password) ==
    \/ email \notin DOMAIN users
    \/ ~checkPasswordHash(password, users[email].HashedPassword)

\* C10: a login request with an unknown email and one with a known email
\* and a wrong password get the same Unauthorized response, with no
\* pending token, never go on to issue one, and leave the store unchanged.
C10_LoginFailureUniform ==
    [][\A email \in Emails, password \in Passwords :
          BadCredentials(email, password) =>
             /\ \A q \in BagToSet(req') :
                    ~(/\ q.pc = "login_write" /\ Enters(q)
                      /\ q.email = email /\ q.password = password)
             /\ (/\ AnswersAtOnce("login")
                 /\ last'.email = email /\ last'.password = password)
                => /\ last' = [NoResponse EXCEPT
                                  !.handler = "login", !.email = email,
                                  !.password = password, !.status = "Unauthorized",
                                  !.message = "Invalid email or password"]
                   /\ users' = users
                   /\ sent' = sent]_vars

C10_Witness ==
    /\ Answered("login")
    /\ last.status = "Unauthorized"
    /\ last.email \in DOMAIN users
    /\ \E e \in DOMAIN users : users[e].Pending_2fa_Token # Empty

\* ---- C11 -----------------------------------------------------------------
\* The step writes the response of `handler` to a POST.
Answers(handler) ==
    /\ last = NoResponse /\ last' # NoResponse
    /\ last'.handler = handler /\ last'.method = "POST"

\* C11: a login request with a registered email and its password is never
\* refused; when it succeeds the Identity holds a token no response has set
\* before, the one the response returns, and every other token the 2fa gate
\* still accepts is the pending token of another Identity.
C11_LoginIssuesFreshToken ==
    [][/\ (AnswersAtOnce("login") /\ last'.status # "OK")
            => BadCredentials(last'.email, last'.password)
       /\ (Answers("login") /\ last'.status = "OK") =>
            LET e == last'.email
                t == last'.set_pending_2fa_token
            IN  /\ t \in Tokens
                /\ sent[t] = Unsent
                /\ sent'[t].kind = "pending"
                /\ e \in DOMAIN users'
                /\ users'[e].Pending_2fa_Token = t
                /\ \A p \in Tokens \ {t} :
                       PreAuthorize(p)' =>
                          \E e2 \in DOMAIN users \ {e} :
                             /\ users[e2].Pending_2fa_Token = p
                             /\ users'[e2].Pending_2fa_Token = p]_vars

\* A second login of the only registered Identity has succeeded: the token
\* of the first is not accepted any more.
C11_Witness ==
    /\ Answered("login") /\ last.status = "OK"
    /\ {x[1] : x \in registered} = {last.email}
    /\ users[last.email].Pending_2fa_Token = last.set_pending_2fa_token
    /\ \E p \in Tokens \ {last.set_pending_2fa_token} :
          sent[p].kind = "pending" /\ ~PreAuthorize(p)

\* ---- C12 -----------------------------------------------------------------
\* C12: every Identity has a session token if and only if it has a CSRF
\* token.
C12_SessionIffCsrf ==
    \A e \in DOMAIN users :
        (users[e].SessionToken # Empty) <=> (users[e].CSRFToken # Empty)

\* A 2fa request has succeeded and a login has followed it.
C12_Witness ==
    /\ Answered("login") /\ last.status = "OK"
    /\ \E s \in Tokens : sent[s].kind = "session"
    /\ users[last.email].SessionToken = Empty
    /\ users[last.email].CSRFToken = Empty

\* ---- C13 -----------------------------------------------------------------
\* The only request in flight is a register request past its checks, and the
\* step ends it without the response of a registration: generateSecretKey
\* has returned an error.
SecretKeyFails ==
    /\ alive
    /\ BagCardinality(req) = 1
    /\ \E r \in BagToSet(req) : r.pc = "register_insert"
    /\ req' = EmptyBag
    /\ ~(last'.handler = "register" /\ last'.status = "OK")

\* C13: when generateSecretKey fails, the register request fails alone: it
\* stores nothing and the server goes on serving requests.
C13_SecretFailureFailsRequestOnly ==
    [][SecretKeyFails => (alive' /\ users' = users)]_vars

\* ---- C14 -----------------------------------------------------------------
\* The request q in flight has read the Identity of e, or is about to
\* resolve it by its pending token.
Touches(q, e) ==
    \/ q.pc \in {"login_write", "logout_read", "logout_write"} /\ q.email = e
    \/ q.pc = "twoFactor_scan" /\ users[e].Pending_2fa_Token = q.pendingToken

\* Two requests in flight run against the Identity of e.
ConcurrentOn(e) ==
    \/ Cardinality({q \in BagToSet(req) : Touches(q, e)}) >= 2
    \/ \E q \in BagToSet(req) : Touches(q, e) /\ CopiesIn(q, req) >= 2

\* C14: while two requests run concurrently against one Identity, every step
\* leaves the Identity in the store, every change of it is the write of one
\* of the requests as that request completes, and its pending token stays,
\* is cleared or is a new one: none that was superseded comes back.
C14_ConcurrentRequestsSerialize ==
    [][\A e \in DOMAIN users :
          ConcurrentOn(e) =>
             /\ e \in DOMAIN users'
             /\ users'[e] # users[e] =>
                   \E q \in BagToSet(req) :
                      Touches(q, e) /\ CopiesIn(q, req') < CopiesIn(q, req)
             /\ \/ users'[e].Pending_2fa_Token \in {users[e].Pending_2fa_Token, Empty}
                \/ sent[users'[e].Pending_2fa_Token] = Unsent]_vars

\* ---- C15 -----------------------------------------------------------------
\* The step answers a request at its gate: a protected request, or a 2fa or
\* logout request that Unauthorized refuses in the step it arrives in.
AnsweredAtGate ==
    \/ AnswersAtOnce("protected")
    \/ AnswersAtOnce("twoFactor") /\ last'.status = "Unauthorized"
    \/ AnswersAtOnce("logout") /\ last'.status = "Unauthorized"

C18_PendingOrSession ==
    /\ \A e \in DOMAIN users :
          users[e].Pending_2fa_Token = Empty \/ users[e].SessionToken = Empty
    /\ (Answered("login") /\ last.status = "OK") =>
          /\ users[last.email].SessionToken = Empty
          /\ users[last.email].CSRFToken = Empty
    /\ (Answered("twoFactor") /\ last.status = "OK") =>
          users[last.resolved].Pending_2fa_Token = Empty

\* ---- C19 -----------------------------------------------------------------
\* C19: while the server runs, no step removes an Identity or changes its
\* HashedPassword or its TOTPSecret.
C19_DigestAndSecretFixed ==
    [][alive' =>
          \A e \in DOMAIN users :
             /\ e \in DOMAIN users'
             /\ users'[e].HashedPassword = users[e].HashedPassword
             /\ users'[e].TOTPSecret = users[e].TOTPSecret]_vars

\* ---- C20 -----------------------------------------------------------------
\* The Identities the scan of a 2fa request can stop at.
ScanMatches(q) ==
    {e \in DOMAIN users : users[e].Pending_2fa_Token = q.pendingToken}

\* C20: no two Identities hold the same pending token, so the scan of every
\* 2fa request in flight can stop at one Identity at most, whatever the
\* order it visits users in.
C20_PendingTokenHasOneHolder ==
    /\ \A e1, e2 \in DOMAIN users :
          (/\ users[e1].Pending_2fa_Token # Empty
           /\ users[e1].Pending_2fa_Token = users[e2].Pending_2fa_Token) => e1 = e2
    /\ \A q \in BagToSet(req) :
          q.pc = "twoFactor_scan" => Cardinality(ScanMatches(q)) <= 1

\* Two Identities hold a pending token each and a 2fa request is about to
\* scan for one of them.
C20_Witness ==
    /\ \E e1, e2 \in DOMAIN users :
          /\ e1 # e2
          /\ users[e1].Pending_2fa_Token # Empty
          /\ users[e2].Pending_2fa_Token # Empty
    /\ \E q \in BagToSet(req) :
          q.pc = "twoFactor_scan" /\ Cardinality(ScanMatches(q)) = 1

====
